---- MODULE Spec2Model ----
(***************************************************************************)
(* Model of chanrpc (src/chanrpc/chanrpc.go): a Server with a registry and *)
(* a bounded call channel ChanCall, the owner goroutine that receives from *)
(* ChanCall and runs Exec (and Go and Close, the Server being confined to  *)
(* one goroutine, chanrpc.go:10), and Clients, one goroutine each, that    *)
(* call synchronously (Call0/Call1/CallN), asynchronously (AsynCall), run  *)
(* callbacks (Cb) and Close.                                               *)
(*                                                                         *)
(* Go channels are modelled as they behave: a buffer of bounded capacity,  *)
(* a FIFO of blocked senders, a receive that takes the head and admits the *)
(* first blocked sender in the same step, close() that wakes every blocked *)
(* sender with a panic, and a send on a closed channel that panics.  An    *)
(* unrecovered panic ends the process (crashed).                           *)
(***************************************************************************)
EXTENDS Integers, Sequences, FiniteSets, TLC

\* ------------------------------------------------------------------ bounds
QueueCap == 1      \* l of NewServer(l): capacity of ChanCall
AsynCap  == 1      \* l of Open(l): capacity of ChanAsynRet
MaxCalls == 3      \* envelopes the Clients create in all
MaxGo    == 1      \* envelopes Server.Go creates

Clients == {"c1", "c2"}
Srv     == "srv"

\* ------------------------------------------------- registered operations
\* The registry the Server is set up with: id -> shape (0: func([]interface{}),
\* 1: func([]interface{}) interface{}, 2: func([]interface{}) []interface{}).
\* -1 stands for f == nil (no entry).
NoFunc == 0 - 1
Registry == [id \in {"f0", "f1", "fn"} |->
               CASE id = "f0" -> 0 [] id = "f1" -> 1 [] id = "fn" -> 2]
Ids == {"f0", "f1", "fn", "zz"}

\* What the registered operations return when their body raises no fault.
Op1(a) == a + 10
OpN(a) == <<a, a + 1>>

\* The calls made: each shape as registered, an id that is not registered,
\* a shape other than the registered one.
Requests == {<<"f0", 0>>, <<"f1", 1>>, <<"fn", 2>>, <<"zz", 1>>, <<"f0", 2>>}
GoIds == {"f0", "zz"}

\* The argument list of the envelope with this key: the k-th envelope of a
\* caller carries a value no other envelope carries.
ArgsOf(who, k) == k + (CASE who = "c1" -> 10 [] who = "c2" -> 20 [] OTHER -> 30)

\* ------------------------------------------------------------------ values
\* interface{} values carry their dynamic type: nil, a single value, a slice.
NilV    == [tag |-> "nil", v |-> <<>>]
ValV(x) == [tag |-> "val", v |-> <<x>>]
SeqV(s) == [tag |-> "seq", v |-> s]

ErrNil        == "nil"
ErrNotReg     == "function not registered"
ErrMismatch   == "return type mismatch"
ErrFull       == "chanrpc channel full"
ErrSendClosed == "send on closed channel"
ErrSrvClosed  == "chanrpc server closed"
ErrFault      == "fault"

NoCb  == 0 - 1
NoKey == <<"none", 0>>
\* CallInfo; key and c identify the envelope and its caller (not fields of
\* the Go struct: a *CallInfo is identified by its address).
NoEnv == [key |-> NoKey, c |-> "none", f |-> "none", args |-> 0,
          chanRet |-> "nil", cb |-> NoCb]
\* RetInfo; env is the CallInfo it answers and how the place that made it
\* ("exec": the operation returned, "fault": it raised a fault, "closed":
\* Server.Close); neither is a field of the Go struct.
NoRi  == [ret |-> NilV, err |-> ErrNil, cb |-> NoCb, env |-> NoEnv, how |-> "none"]

\* The record kept of an envelope: whether it entered ChanCall, the RetInfo
\* values constructed for it and sent on its chanRet, the invocations of its
\* operation and of its callback by Cb.
NoHist == [enq |-> 0, produced |-> 0, delivered |-> 0, executed |-> 0, cbs |-> 0]

\* What the last step handed to a Client's goroutine: the return of a
\* synchronous call (op "sync": n the shape, ret and err the values returned,
\* own the CallInfo of the call, from the envelope the RetInfo read answers)
\* or a callback invocation (op "cb": n the callback's shape, ret and err its
\* arguments, inline whether AsynCall made it) or the return of Server.Go
\* (op "go": err the outcome of its send, which Go does not report).  how is
\* that of the RetInfo read.
NoEvent == [op |-> "none", c |-> "none", n |-> NoCb, ret |-> NilV, err |-> ErrNil,
            own |-> NoEnv, from |-> NoKey, inline |-> FALSE, how |-> "none"]

AllKeys == (Clients \X (1..MaxCalls)) \cup ({Srv} \X (1..MaxGo))

VARIABLES
  functions,        \* Server.functions
  chanCall,         \* Server.ChanCall: the buffered envelopes
  sendq,            \* senders blocked on ChanCall, in order: their envelopes
  closed,           \* ChanCall has been closed
  spc,              \* where the owner goroutine is
  cur,              \* the CallInfo the owner goroutine holds
  curRi,            \* the RetInfo the owner goroutine is blocked sending
  ngo,              \* number of envelopes Server.Go has created
  cpc,              \* where each Client's goroutine is
  pend,             \* the CallInfo of a Client's call in progress
  chanSyncRet,      \* Client.chanSyncRet
  ChanAsynRet,      \* Client.ChanAsynRet
  pendingAsynCall,  \* Client.pendingAsynCall
  ncalls,           \* number of envelopes each Client has created
  last,             \* what the last step returned or called back (see NoEvent)
  hist,             \* per envelope: what has happened to it (see NoHist)
  arrived,          \* per Client: envelopes answered on ChanAsynRet, in order
  atClose,          \* the envelopes resident in ChanCall when it was closed
  crashed           \* an unrecovered panic has ended the process

svars == <<functions, chanCall, sendq, closed, spc, cur, curRi, ngo>>
cvars == <<cpc, pend, chanSyncRet, ChanAsynRet, pendingAsynCall, ncalls>>
hvars == <<hist, arrived, atClose, crashed>>
vars  == <<svars, cvars, hvars, last>>

Init ==
  /\ functions = [id \in Ids |-> IF id \in DOMAIN Registry THEN Registry[id] ELSE NoFunc]
  /\ chanCall = <<>>
  /\ sendq = <<>>
  /\ closed = FALSE
  /\ spc = "idle"
  /\ cur = NoEnv
  /\ curRi = NoRi
  /\ ngo = 0
  /\ cpc = [c \in Clients |-> "idle"]
  /\ pend = [c \in Clients |-> NoEnv]
  /\ chanSyncRet = [c \in Clients |-> <<>>]
  /\ ChanAsynRet = [c \in Clients |-> <<>>]
  /\ pendingAsynCall = [c \in Clients |-> 0]
  /\ ncalls = [c \in Clients |-> 0]
  /\ last = NoEvent
  /\ hist = [k \in AllKeys |-> NoHist]
  /\ arrived = [c \in Clients |-> <<>>]
  /\ atClose = {}
  /\ crashed = FALSE

\* ------------------------------------------------------------ Client.f
\* (FNoShapeCheck: f without the switch on n; C11 does not hold of it.)
FNoShapeCheck(id, n) ==
  IF functions[id] = NoFunc THEN ErrNotReg
  ELSE ErrNil

\* Resolve id for the requested shape n: the error, or ErrNil.
f(id, n) ==
  IF functions[id] = NoFunc THEN ErrNotReg
  ELSE IF functions[id] # n THEN ErrMismatch
  ELSE ErrNil

\* --------------------------------------------------------- Client.call
\* (CallIgnoresClosed: a send that a closed ChanCall accepts; C7 does not hold
\* of it.  CallAlwaysBlocks: call taking the blocking branch whatever block
\* is; C8 does not hold of it.  CallNeverBlocks: call taking the select
\* whatever block is; C9 does not hold of it.)
CallIgnoresClosed(ci, block) ==
  IF Len(chanCall) < QueueCap THEN "ok"
  ELSE IF block THEN "wait"
  ELSE ErrFull

CallAlwaysBlocks(ci, block) ==
  IF closed THEN ErrSendClosed
  ELSE IF Len(chanCall) < QueueCap THEN "ok"
  ELSE "wait"

CallNeverBlocks(ci, block) ==
  IF closed THEN ErrSendClosed
  ELSE IF Len(chanCall) < QueueCap THEN "ok"
  ELSE ErrFull

\* The outcome of sending ci on ChanCall: "ok" (buffered), "wait" (the
\* goroutine blocks in the send), or the error call returns.
call(ci, block) ==
  IF closed THEN ErrSendClosed
  ELSE IF Len(chanCall) < QueueCap THEN "ok"
  ELSE IF block THEN "wait"
  ELSE ErrFull

\* ---------------------------------------------------------- Server.Exec
\* (ExecLosesFault: Exec answering a fault as a return without error; C6 does
\* not hold of it.  ExecEchoesArgs: Exec answering a shape-1 envelope with its
\* argument in place of the operation's result; C10 does not hold of it.)
ExecLosesFault(ci, fault) ==
  [ret |-> NilV, err |-> ErrNil, cb |-> NoCb, env |-> ci,
   how |-> IF fault THEN "fault" ELSE "exec"]

ExecEchoesArgs(ci, fault) ==
  IF fault
  THEN [ret |-> NilV, err |-> ErrFault, cb |-> NoCb, env |-> ci, how |-> "fault"]
  ELSE [ret |-> CASE functions[ci.f] = 0 -> NilV
                  [] functions[ci.f] = 1 -> ValV(ci.args)
                  [] functions[ci.f] = 2 -> SeqV(OpN(ci.args)),
        err |-> ErrNil, cb |-> NoCb, env |-> ci, how |-> "exec"]

\* The RetInfo Exec hands to s.ret for ci: the recovered fault when the
\* operation's body raised one (fault), or the result packaged per shape.
ExecRetInfo(ci, fault) ==
  IF fault
  THEN [ret |-> NilV, err |-> ErrFault, cb |-> NoCb, env |-> ci, how |-> "fault"]
  ELSE [ret |-> CASE functions[ci.f] = 0 -> NilV
                  [] functions[ci.f] = 1 -> ValV(Op1(ci.args))
                  [] functions[ci.f] = 2 -> SeqV(OpN(ci.args)),
        err |-> ErrNil, cb |-> NoCb, env |-> ci, how |-> "exec"]

\* (ClosedRetInfoNoErr: Close answering without the error; C4 does not hold
\* of it.)
ClosedRetInfoNoErr(ci) ==
  [ret |-> NilV, err |-> ErrNil, cb |-> NoCb, env |-> ci, how |-> "closed"]

\* The RetInfo Server.Close hands to s.ret for an envelope left in ChanCall.
ClosedRetInfo(ci) ==
  [ret |-> NilV, err |-> ErrSrvClosed, cb |-> NoCb, env |-> ci, how |-> "closed"]

\* ----------------------------------------------- the record of envelopes
Enqueued(h, ci)  == [h EXCEPT ![ci.key].enq = 1]
Produced(h, ci)  == [h EXCEPT ![ci.key].produced = @ + 1]
Executed(h, ci)  == [h EXCEPT ![ci.key].executed = @ + 1]
Sent(h, ci)      == [h EXCEPT ![ci.key].delivered = @ + 1]
CalledBack(h, k) == [h EXCEPT ![k].cbs = @ + 1]

\* ----------------------------------------------------------- Server.ret
\* (RetSkipsAsyn: ret returning early for every CallInfo but a synchronous
\* one; C1 does not hold of it.)
RetSkipsAsyn(ci) == ci.chanRet # "sync"
RetSkips(ci) == ci.chanRet = "nil"

Buf(c, ch) == IF ch = "sync" THEN chanSyncRet[c] ELSE ChanAsynRet[c]
\* (CapUnbuffered: Open making chanSyncRet with no buffer; C13 does not hold
\* of it.)
CapUnbuffered(ch) == IF ch = "sync" THEN 0 ELSE AsynCap
Cap(ch) == IF ch = "sync" THEN 1 ELSE AsynCap

\* The owner goroutine is blocked in `ci.chanRet <- ri` on channel ch of c.
Blocked(c, ch) ==
  /\ spc \in {"retWait", "closeRetWait"}
  /\ cur.c = c
  /\ cur.chanRet = ch

\* ri enters the channel ci.chanRet names.
Deliver(ci, ri) ==
  IF ci.chanRet = "sync"
  THEN /\ chanSyncRet' = [chanSyncRet EXCEPT ![ci.c] = Append(@, ri)]
       /\ UNCHANGED <<ChanAsynRet, arrived>>
  ELSE /\ ChanAsynRet' = [ChanAsynRet EXCEPT ![ci.c] = Append(@, ri)]
       /\ arrived' = [arrived EXCEPT ![ci.c] = Append(@, ci.key[2])]
       /\ UNCHANGED chanSyncRet

\* s.ret(ci, ri); the owner goroutine goes on at `done`, or blocks at `wait`
\* while the channel is full.  h is the record of envelopes so far.
ret(ci, ri, done, wait, h) ==
  IF RetSkips(ci)
  THEN /\ spc' = done
       /\ cur' = NoEnv
       /\ curRi' = NoRi
       /\ hist' = h
       /\ UNCHANGED <<chanSyncRet, ChanAsynRet, arrived>>
  ELSE IF Len(Buf(ci.c, ci.chanRet)) < Cap(ci.chanRet)
  THEN /\ Deliver(ci, [ri EXCEPT !.cb = ci.cb])
       /\ hist' = Sent(h, ci)
       /\ spc' = done
       /\ cur' = NoEnv
       /\ curRi' = NoRi
  ELSE /\ spc' = wait
       /\ cur' = ci
       /\ curRi' = [ri EXCEPT !.cb = ci.cb]
       /\ hist' = h
       /\ UNCHANGED <<chanSyncRet, ChanAsynRet, arrived>>

\* What a receive on channel ch of c can take: the buffer, then the value of
\* the sender blocked on it.
\* (AvailBlockedFirst: a receive that takes the blocked sender's value ahead
\* of the buffer; C2 does not hold of it.)
AvailBlockedFirst(c, ch) == (IF Blocked(c, ch) THEN <<curRi>> ELSE <<>>) \o Buf(c, ch)
Avail(c, ch) == Buf(c, ch) \o (IF Blocked(c, ch) THEN <<curRi>> ELSE <<>>)

\* `<-ch` by c, yielding Head(Avail(c, ch)); a blocked sender's value enters
\* the channel and the sender resumes.  h is the record of envelopes so far.
RecvRet(c, ch, h) ==
  /\ Avail(c, ch) # <<>>
  /\ IF ch = "sync"
     THEN /\ chanSyncRet' = [chanSyncRet EXCEPT ![c] = Tail(Avail(c, ch))]
          /\ UNCHANGED ChanAsynRet
     ELSE /\ ChanAsynRet' = [ChanAsynRet EXCEPT ![c] = Tail(Avail(c, ch))]
          /\ UNCHANGED chanSyncRet
  /\ IF Blocked(c, ch)
     THEN /\ spc' = IF spc = "retWait" THEN "idle" ELSE "closing"
          /\ cur' = NoEnv
          /\ curRi' = NoRi
          /\ hist' = Sent(h, cur)
          /\ arrived' = IF ch = "asyn"
                        THEN [arrived EXCEPT ![c] = Append(@, cur.key[2])]
                        ELSE arrived
     ELSE /\ hist' = h
          /\ UNCHANGED <<spc, cur, curRi, arrived>>

\* ------------------------------------------------ the owner goroutine
\* The envelope a receive on ChanCall yields, and what stays buffered.
Dequeue(q) == Head(q)
\* (RemainderKeepsHead: a receive that leaves the envelope in ChanCall; C18
\* does not hold of it.)
RemainderKeepsHead(q) == q
Remainder(q) == Tail(q)

\* A sender blocked on ChanCall is admitted: a synchronous caller goes on to
\* read its result, asynCall goes on to count the call.
Admit(ci) ==
  /\ cpc' = [cpc EXCEPT ![ci.c] = IF ci.chanRet = "sync" THEN "readWait" ELSE "idle"]
  /\ pendingAsynCall' = [pendingAsynCall EXCEPT ![ci.c] =
                           IF ci.chanRet = "sync" THEN @ ELSE @ + 1]
  /\ pend' = [pend EXCEPT ![ci.c] = IF ci.chanRet = "sync" THEN @ ELSE NoEnv]

\* The owner loop: ci := <-s.ChanCall, to be passed to Exec.
OwnerRecv ==
  /\ ~crashed
  /\ spc = "idle"
  /\ chanCall # <<>>
  /\ cur' = Dequeue(chanCall)
  /\ spc' = "exec"
  /\ IF sendq # <<>>
     THEN /\ chanCall' = Append(Remainder(chanCall), Head(sendq))
          /\ sendq' = Tail(sendq)
          /\ hist' = Enqueued(hist, Head(sendq))
          /\ Admit(Head(sendq))
     ELSE /\ chanCall' = Remainder(chanCall)
          /\ UNCHANGED <<sendq, hist, cpc, pendingAsynCall, pend>>
  /\ last' = NoEvent
  /\ UNCHANGED <<functions, closed, curRi, ngo, chanSyncRet, ChanAsynRet,
                 ncalls, arrived, atClose, crashed>>

\* Server.Exec(cur): run the operation, whose body returns or raises a
\* fault, recover the fault, s.ret.
Exec ==
  /\ ~crashed
  /\ spc = "exec"
  /\ \E fault \in BOOLEAN :
       ret(cur, ExecRetInfo(cur, fault), "idle", "retWait",
           Produced(Executed(hist, cur), cur))
  /\ last' = NoEvent
  /\ UNCHANGED <<functions, chanCall, sendq, closed, ngo, cpc, pend,
                 pendingAsynCall, ncalls, atClose, crashed>>

\* --------------------------------------------------------- Server.Close
\* close(s.ChanCall), on the owner goroutine between two receives.  Every
\* sender blocked on ChanCall is woken (see PushPanic).
ServerClose ==
  /\ ~crashed
  /\ spc = "idle"
  /\ ~closed
  /\ closed' = TRUE
  /\ spc' = "closing"
  /\ atClose' = {chanCall[i].key : i \in 1..Len(chanCall)}
  /\ sendq' = <<>>
  /\ last' = NoEvent
  /\ UNCHANGED <<functions, chanCall, cur, curRi, ngo, cvars, hist, arrived, crashed>>

\* One turn of `for ci := range s.ChanCall { s.ret(ci, closed error) }`.
ServerCloseDrain ==
  /\ ~crashed
  /\ spc = "closing"
  /\ chanCall # <<>>
  /\ chanCall' = Remainder(chanCall)
  /\ ret(Dequeue(chanCall), ClosedRetInfo(Dequeue(chanCall)), "closing", "closeRetWait",
         Produced(hist, Dequeue(chanCall)))
  /\ last' = NoEvent
  /\ UNCHANGED <<functions, sendq, closed, ngo, cpc, pend, pendingAsynCall,
                 ncalls, atClose, crashed>>

\* The range loop ends on the closed, empty channel: Close returns.
ServerCloseEnd ==
  /\ ~crashed
  /\ spc = "closing"
  /\ chanCall = <<>>
  /\ spc' = "closed"
  /\ last' = NoEvent
  /\ UNCHANGED <<functions, chanCall, sendq, closed, cur, curRi, ngo, cvars, hvars>>

\* ------------------------------------------------------------ Server.Go
GoEnv(id) ==
  [key |-> <<Srv, ngo + 1>>, c |-> Srv, f |-> id, args |-> ArgsOf(Srv, ngo + 1),
   chanRet |-> "nil", cb |-> NoCb]

GoReturn(e) ==
  [op |-> "go", c |-> Srv, n |-> NoCb, ret |-> NilV, err |-> e, own |-> NoEnv,
   from |-> NoKey, inline |-> FALSE, how |-> "none"]

\* Go(id, ...) on the owner goroutine: between two receives, inside an
\* operation, or after Close.  With ChanCall full the send blocks, and the
\* only receiver is the blocked goroutine itself.
Go(id) ==
  /\ ~crashed
  /\ spc \in {"idle", "exec", "closed"}
  /\ ngo < MaxGo
  /\ IF functions[id] = NoFunc
     THEN /\ last' = GoReturn(ErrNotReg)
          /\ UNCHANGED <<chanCall, spc, hist, ngo>>
     ELSE CASE call(GoEnv(id), TRUE) = "ok" ->
                 /\ chanCall' = Append(chanCall, GoEnv(id))
                 /\ hist' = Enqueued(hist, GoEnv(id))
                 /\ ngo' = ngo + 1
                 /\ last' = GoReturn(ErrNil)
                 /\ UNCHANGED spc
            [] call(GoEnv(id), TRUE) = "wait" ->
                 /\ spc' = IF spc = "exec" THEN "goWaitExec" ELSE "goWait"
                 /\ ngo' = ngo + 1
                 /\ last' = NoEvent
                 /\ UNCHANGED <<chanCall, hist>>
            [] OTHER ->
                 /\ last' = GoReturn(call(GoEnv(id), TRUE))
                 /\ UNCHANGED <<chanCall, spc, hist, ngo>>
  /\ UNCHANGED <<functions, sendq, closed, cur, curRi, cvars, arrived, atClose, crashed>>

\* ------------------------------------------------- Call0 / Call1 / CallN
Total == LET S[cs \in SUBSET Clients] ==
             IF cs = {} THEN 0
             ELSE LET x == CHOOSE x \in cs : TRUE IN ncalls[x] + S[cs \ {x}]
         IN S[Clients]

SyncEnv(c, id) ==
  [key |-> <<c, ncalls[c] + 1>>, c |-> c, f |-> id, args |-> ArgsOf(c, ncalls[c] + 1),
   chanRet |-> "sync", cb |-> NoCb]

\* ri.ret.([]interface{}) panics unless ri.ret holds a slice.
AssertPanics(v) == v.tag # "seq"

\* What Call<n> returns: the error of c.f or of c.call ...
SyncError(c, n, e, ci) ==
  [op |-> "sync", c |-> c, n |-> n, ret |-> NilV, err |-> e, own |-> ci,
   from |-> NoKey, inline |-> FALSE, how |-> "none"]

\* ... or the fields of the RetInfo it read.
SyncResult(ci, ri) ==
  [op |-> "sync", c |-> ci.c, n |-> functions[ci.f],
   ret |-> IF functions[ci.f] = 0 THEN NilV ELSE ri.ret,
   err |-> ri.err, own |-> ci, from |-> ri.env.key, inline |-> FALSE, how |-> ri.how]

\* Call<n>(id, ...) up to the send on ChanCall.
Call(c, id, n) ==
  /\ ~crashed
  /\ cpc[c] = "idle"
  /\ Total < MaxCalls
  /\ IF f(id, n) # ErrNil
     THEN /\ last' = SyncError(c, n, f(id, n), NoEnv)
          /\ UNCHANGED <<chanCall, sendq, cpc, pend, hist, ncalls>>
     ELSE CASE call(SyncEnv(c, id), TRUE) = "ok" ->
                 /\ chanCall' = Append(chanCall, SyncEnv(c, id))
                 /\ hist' = Enqueued(hist, SyncEnv(c, id))
                 /\ cpc' = [cpc EXCEPT ![c] = "readWait"]
                 /\ pend' = [pend EXCEPT ![c] = SyncEnv(c, id)]
                 /\ ncalls' = [ncalls EXCEPT ![c] = @ + 1]
                 /\ last' = NoEvent
                 /\ UNCHANGED sendq
            [] call(SyncEnv(c, id), TRUE) = "wait" ->
                 /\ sendq' = Append(sendq, SyncEnv(c, id))
                 /\ cpc' = [cpc EXCEPT ![c] = "pushWait"]
                 /\ pend' = [pend EXCEPT ![c] = SyncEnv(c, id)]
                 /\ ncalls' = [ncalls EXCEPT ![c] = @ + 1]
                 /\ last' = NoEvent
                 /\ UNCHANGED <<chanCall, hist>>
            [] OTHER ->
                 /\ last' = SyncError(c, n, call(SyncEnv(c, id), TRUE), SyncEnv(c, id))
                 /\ UNCHANGED <<chanCall, sendq, cpc, pend, hist, ncalls>>
  /\ UNCHANGED <<functions, closed, spc, cur, curRi, ngo, chanSyncRet, ChanAsynRet,
                 pendingAsynCall, arrived, atClose, crashed>>

\* ri := <-c.chanSyncRet and the return of Call<n>.
CallRead(c) ==
  /\ ~crashed
  /\ cpc[c] = "readWait"
  /\ RecvRet(c, "sync", hist)
  /\ pend' = [pend EXCEPT ![c] = NoEnv]
  /\ IF functions[pend[c].f] = 2 /\ AssertPanics(Head(Avail(c, "sync")).ret)
     THEN /\ crashed' = TRUE
          /\ cpc' = [cpc EXCEPT ![c] = "callPanic"]
          /\ last' = NoEvent
     ELSE /\ last' = SyncResult(pend[c], Head(Avail(c, "sync")))
          /\ cpc' = [cpc EXCEPT ![c] = "idle"]
          /\ UNCHANGED crashed
  /\ UNCHANGED <<functions, chanCall, sendq, closed, ngo, pendingAsynCall, ncalls,
                 atClose>>

\* ------------------------------------------------------------ AsynCall
AsynEnv(c, id, n) ==
  [key |-> <<c, ncalls[c] + 1>>, c |-> c, f |-> id, args |-> ArgsOf(c, ncalls[c] + 1),
   chanRet |-> "asyn", cb |-> n]

\* The callback AsynCall runs inline with the error asynCall returned.
InlineCb(ci, e) ==
  [op |-> "cb", c |-> ci.c, n |-> ci.cb, ret |-> NilV, err |-> e, own |-> ci,
   from |-> NoKey, inline |-> TRUE, how |-> "none"]

\* AsynCall(id, ..., cb) with a callback of shape n.
AsynCall(c, id, n) ==
  /\ ~crashed
  /\ cpc[c] = "idle"
  /\ Total < MaxCalls
  /\ IF f(id, n) # ErrNil
     THEN /\ last' = InlineCb(AsynEnv(c, id, n), f(id, n))
          /\ UNCHANGED <<chanCall, sendq, cpc, pend, pendingAsynCall, hist, ncalls>>
     ELSE CASE call(AsynEnv(c, id, n), FALSE) = "ok" ->
                 /\ chanCall' = Append(chanCall, AsynEnv(c, id, n))
                 /\ hist' = Enqueued(hist, AsynEnv(c, id, n))
                 /\ pendingAsynCall' = [pendingAsynCall EXCEPT ![c] = @ + 1]
                 /\ ncalls' = [ncalls EXCEPT ![c] = @ + 1]
                 /\ last' = NoEvent
                 /\ UNCHANGED <<sendq, cpc, pend>>
            [] call(AsynEnv(c, id, n), FALSE) = "wait" ->
                 /\ sendq' = Append(sendq, AsynEnv(c, id, n))
                 /\ cpc' = [cpc EXCEPT ![c] = "pushWait"]
                 /\ pend' = [pend EXCEPT ![c] = AsynEnv(c, id, n)]
                 /\ ncalls' = [ncalls EXCEPT ![c] = @ + 1]
                 /\ last' = NoEvent
                 /\ UNCHANGED <<chanCall, hist, pendingAsynCall>>
            [] OTHER ->
                 /\ last' = InlineCb(AsynEnv(c, id, n), call(AsynEnv(c, id, n), FALSE))
                 /\ UNCHANGED <<chanCall, sendq, cpc, pend, pendingAsynCall, hist, ncalls>>
  /\ UNCHANGED <<functions, closed, spc, cur, curRi, ngo, chanSyncRet, ChanAsynRet,
                 arrived, atClose, crashed>>

\* A goroutine blocked in c.call's send when ChanCall is closed: the send
\* panics, call recovers and returns the error; Call<n> returns it, AsynCall
\* runs the callback with it.
PushPanic(c) ==
  /\ ~crashed
  /\ cpc[c] = "pushWait"
  /\ closed
  /\ cpc' = [cpc EXCEPT ![c] = "idle"]
  /\ pend' = [pend EXCEPT ![c] = NoEnv]
  /\ IF pend[c].chanRet = "sync"
     THEN last' = SyncError(c, functions[pend[c].f], ErrSendClosed, pend[c])
     ELSE last' = InlineCb(pend[c], ErrSendClosed)
  /\ UNCHANGED <<svars, chanSyncRet, ChanAsynRet, pendingAsynCall, ncalls, hvars>>

\* ------------------------------------------------------------ Client.Cb
\* Cb panics in ri.ret.([]interface{}) when the callback takes a slice and
\* ri.ret holds none.
CbPanics(ri) == ri.cb = 2 /\ AssertPanics(ri.ret)

\* The callback invocation Cb makes for ri.
CbCall(c, ri) ==
  [op |-> "cb", c |-> c, n |-> ri.cb, ret |-> IF ri.cb = 0 THEN NilV ELSE ri.ret,
   err |-> ri.err, own |-> ri.env, from |-> ri.env.key, inline |-> FALSE,
   how |-> ri.how]

\* (RecvCbKeepsCount: Cb without c.pendingAsynCall--; C12 and C17 do not hold
\* of it.)
RecvCbKeepsCount(c, next) ==
  /\ Avail(c, "asyn") # <<>>
  /\ IF CbPanics(Head(Avail(c, "asyn")))
     THEN /\ RecvRet(c, "asyn", hist)
          /\ crashed' = TRUE
          /\ cpc' = [cpc EXCEPT ![c] = IF next = "closing" THEN "closePanic" ELSE "cbPanic"]
          /\ last' = NoEvent
     ELSE /\ RecvRet(c, "asyn", CalledBack(hist, Head(Avail(c, "asyn")).env.key))
          /\ last' = CbCall(c, Head(Avail(c, "asyn")))
          /\ cpc' = [cpc EXCEPT ![c] = next]
          /\ UNCHANGED crashed
  /\ UNCHANGED <<functions, chanCall, sendq, closed, ngo, pend, ncalls, atClose,
                 pendingAsynCall>>

\* c.Cb(<-c.ChanAsynRet); the goroutine goes on at `next`.
RecvCb(c, next) ==
  /\ Avail(c, "asyn") # <<>>
  /\ IF CbPanics(Head(Avail(c, "asyn")))
     THEN /\ RecvRet(c, "asyn", hist)
          /\ crashed' = TRUE
          /\ cpc' = [cpc EXCEPT ![c] = IF next = "closing" THEN "closePanic" ELSE "cbPanic"]
          /\ last' = NoEvent
          /\ UNCHANGED pendingAsynCall
     ELSE /\ RecvRet(c, "asyn", CalledBack(hist, Head(Avail(c, "asyn")).env.key))
          /\ last' = CbCall(c, Head(Avail(c, "asyn")))
          /\ pendingAsynCall' = [pendingAsynCall EXCEPT ![c] = @ - 1]
          /\ cpc' = [cpc EXCEPT ![c] = next]
          /\ UNCHANGED crashed
  /\ UNCHANGED <<functions, chanCall, sendq, closed, ngo, pend, ncalls, atClose>>

\* The application pumps one result: c.Cb(<-c.ChanAsynRet).
Cb(c) ==
  /\ ~crashed
  /\ cpc[c] = "idle"
  /\ RecvCb(c, "idle")

\* --------------------------------------------------------- Client.Close
ClientClose(c) ==
  /\ ~crashed
  /\ cpc[c] = "idle"
  /\ cpc' = [cpc EXCEPT ![c] = "closing"]
  /\ last' = NoEvent
  /\ UNCHANGED <<svars, pend, chanSyncRet, ChanAsynRet, pendingAsynCall, ncalls, hvars>>

\* One turn of `for c.pendingAsynCall > 0 { c.Cb(<-c.ChanAsynRet) }`.
ClientCloseCb(c) ==
  /\ ~crashed
  /\ cpc[c] = "closing"
  /\ pendingAsynCall[c] > 0
  /\ RecvCb(c, "closing")

\* The loop ends: Close returns.
ClientCloseEnd(c) ==
  /\ ~crashed
  /\ cpc[c] = "closing"
  /\ ~(pendingAsynCall[c] > 0)
  /\ cpc' = [cpc EXCEPT ![c] = "closed"]
  /\ last' = NoEvent
  /\ UNCHANGED <<svars, pend, chanSyncRet, ChanAsynRet, pendingAsynCall, ncalls, hvars>>

\* ------------------------------------------------------------------ Spec
Next ==
  \/ OwnerRecv
  \/ Exec
  \/ ServerClose
  \/ ServerCloseDrain
  \/ ServerCloseEnd
  \/ \E id \in GoIds : Go(id)
  \/ \E c \in Clients, r \in Requests : Call(c, r[1], r[2])
  \/ \E c \in Clients : CallRead(c)
  \/ \E c \in Clients, r \in Requests : AsynCall(c, r[1], r[2])
  \/ \E c \in Clients : PushPanic(c)
  \/ \E c \in Clients : Cb(c)
  \/ \E c \in Clients : ClientClose(c)
  \/ \E c \in Clients : ClientCloseCb(c)
  \/ \E c \in Clients : ClientCloseEnd(c)

Spec == Init /\ [][Next]_vars

\* ------------------------------------------------------ Server.Register
\* The values passed as f: functions of the three types (0, 1, 2) and a value
\* of another type (3).
Operations == {0, 1, 2, 3}
ValidShape(op) == op \in {0, 1, 2}

ErrInvalidDef == "definition of function is invalid"
ErrAlreadyReg == "already registered"

\* (RegisterPanicNoDup: Register without the lookup of id; C14 does not hold
\* of it.)
RegisterPanicNoDup(id, op) ==
  IF ~ValidShape(op) THEN ErrInvalidDef ELSE ErrNil

\* The panic Register(id, f) raises, ErrNil when it raises none.
RegisterPanic(id, op) ==
  IF ~ValidShape(op) THEN ErrInvalidDef
  ELSE IF functions[id] # NoFunc THEN ErrAlreadyReg
  ELSE ErrNil

RegisterEvent(id, op, e) ==
  [op |-> "register", c |-> Srv, n |-> op, ret |-> NilV, err |-> e,
   own |-> [NoEnv EXCEPT !.f = id], from |-> NoKey, inline |-> FALSE, how |-> "none"]

\* Register(id, f) during setup, before Open and Go.  Nothing recovers its
\* panic.
Register(id, op) ==
  /\ ~crashed
  /\ IF RegisterPanic(id, op) # ErrNil
     THEN /\ crashed' = TRUE
          /\ UNCHANGED functions
     ELSE /\ functions' = [functions EXCEPT ![id] = op]
          /\ UNCHANGED crashed
  /\ last' = RegisterEvent(id, op, RegisterPanic(id, op))
  /\ UNCHANGED <<chanCall, sendq, closed, spc, cur, curRi, ngo, cvars, hist,
                 arrived, atClose>>

\* The setup of a Server: NewServer, then calls of Register.
InitSetup ==
  /\ functions = [id \in Ids |-> NoFunc]
  /\ chanCall = <<>>
  /\ sendq = <<>>
  /\ closed = FALSE
  /\ spc = "idle"
  /\ cur = NoEnv
  /\ curRi = NoRi
  /\ ngo = 0
  /\ cpc = [c \in Clients |-> "idle"]
  /\ pend = [c \in Clients |-> NoEnv]
  /\ chanSyncRet = [c \in Clients |-> <<>>]
  /\ ChanAsynRet = [c \in Clients |-> <<>>]
  /\ pendingAsynCall = [c \in Clients |-> 0]
  /\ ncalls = [c \in Clients |-> 0]
  /\ last = NoEvent
  /\ hist = [k \in AllKeys |-> NoHist]
  /\ arrived = [c \in Clients |-> <<>>]
  /\ atClose = {}
  /\ crashed = FALSE

NextSetup == \E id \in Ids, op \in Operations : Register(id, op)

SpecSetup == InitSetup /\ [][NextSetup]_vars

\* ======================================================= properties
\* The envelope with key k is buffered in ChanCall.
Resident(k) == \E i \in 1..Len(chanCall) : chanCall[i].key = k

\* The envelope with key k entered ChanCall and the Server is through with
\* it: it is neither buffered nor held by the owner goroutine.
Finished(k) == hist[k].enq = 1 /\ ~Resident(k) /\ cur.key # k

Increasing(q) == \A i, j \in 1..Len(q) : i < j => q[i] < q[j]

\* The envelopes (by number) whose RetInfo a receive on ChanAsynRet of c
\* will yield, in order.
AsynKeys(c) == [i \in 1..Len(Avail(c, "asyn")) |-> Avail(c, "asyn")[i].env.key[2]]

\* ---------------------------------------------------------------- C1
\* C1: for every envelope that entered ChanCall (from Call0/Call1/CallN,
\* AsynCall or Go) exactly one RetInfo is made and handed to s.ret: none
\* before the Server takes it, never more than one, and one once the Server
\* is through with it, be it by Exec (return or fault) or by Close.  That one
\* RetInfo is sent on the envelope's chanRet exactly once; an envelope of Go
\* has no chanRet and s.ret sends nothing for it.
C1_ExactlyOneReturn ==
  \A k \in AllKeys :
    /\ hist[k].produced <= 1
    /\ hist[k].delivered <= hist[k].produced
    /\ hist[k].enq = 0 => hist[k].produced = 0
    /\ Resident(k) => hist[k].produced = 0
    /\ Finished(k) => /\ hist[k].produced = 1
                      /\ hist[k].delivered = IF k[1] = Srv THEN 0 ELSE 1

\* A Client's envelope answered by Exec, another answered by Close, and an
\* envelope of Go the Server is through with.
C1_Witness ==
  /\ \E k1, k2 \in Clients \X (1..MaxCalls) :
       /\ Finished(k1) /\ hist[k1].executed = 1
       /\ Finished(k2) /\ k2 \in atClose
  /\ Finished(<<Srv, 1>>)

InFlight ==
  UNION {{chanSyncRet[c][i] : i \in 1..Len(chanSyncRet[c])} : c \in Clients}
  \cup UNION {{ChanAsynRet[c][i] : i \in 1..Len(ChanAsynRet[c])} : c \in Clients}
  \cup (IF spc \in {"retWait", "closeRetWait"} THEN {curRi} ELSE {})

\* The asynchronous envelopes of c the Server has still to answer.
Unanswered(c) ==
  \/ \E i \in 1..Len(chanCall) : chanCall[i].c = c /\ chanCall[i].chanRet = "asyn"
  \/ cur.c = c /\ cur.chanRet = "asyn"

\* C3: Client.Close, with asynchronous calls of any shape pending that the
\* Server executes or fails by its own Close, runs every callback exactly once
\* before it returns: a RetInfo taken from ChanAsynRet has had its callback
\* invoked once (none is dropped), and when Close has returned the counter is
\* 0 and no asynchronous envelope of the Client is left unanswered or unread.
C3_CloseRunsEveryCallback ==
  \A c \in Clients :
    /\ cpc[c] \in {"closing", "closePanic", "closed"} =>
         \A i \in 1..Len(arrived[c]) :
           hist[<<c, arrived[c][i]>>].cbs =
             IF \E m \in 1..Len(AsynKeys(c)) : AsynKeys(c)[m] = arrived[c][i]
             THEN 0 ELSE 1
    /\ cpc[c] = "closed" =>
         /\ pendingAsynCall[c] = 0
         /\ AsynKeys(c) = <<>>
         /\ ~Unanswered(c)

\* ---------------------------------------------------------------- C4
\* C4: Server.Close answers each envelope resident in ChanCall when it begins
\* with the "chanrpc server closed" error on the envelope's chanRet and runs
\* none of their operations; ChanCall is empty when Close returns; an envelope
\* the owner goroutine took before Close keeps the RetInfo Exec made for it.
C4_CloseAnswersResidents ==
  /\ \A k \in atClose : hist[k].executed = 0
  /\ \A ri \in InFlight :
       IF ri.env.key \in atClose
       THEN ri.err = ErrSrvClosed /\ ri.ret = NilV
       ELSE ri = [ExecRetInfo(ri.env, ri.how = "fault") EXCEPT !.cb = ri.env.cb]
  /\ last.from # NoKey => (last.from \in atClose <=> last.err = ErrSrvClosed)
  /\ spc \in {"closing", "closeRetWait", "closed"} =>
       \A k \in atClose :
         \/ Resident(k) /\ hist[k].produced = 0
         \/ cur.key = k /\ spc = "closeRetWait" /\ hist[k].produced = 1
         \/ Finished(k) /\ hist[k].produced = 1
                        /\ (k[1] # Srv => hist[k].delivered = 1)
  /\ spc = "closed" => chanCall = <<>> /\ \A k \in atClose : Finished(k)

\* Close has returned; it answered a resident envelope whose caller has read
\* the error, and a RetInfo Exec made before Close is still unread.
C4_Witness ==
  /\ spc = "closed"
  /\ last.from \in atClose /\ last.err = ErrSrvClosed
  /\ \E ri \in InFlight : ri.env.key \notin atClose

\* ---------------------------------------------------------------- C5
\* C5: every error the Server makes for a call (the operation's fault, the
\* closed Server) reaches the caller as an error value, whatever the shape:
\* no Client goroutine panics, and a synchronous return or a callback made
\* from such a RetInfo carries a non-nil error.
C5_ErrorsAreValues ==
  /\ \A c \in Clients : cpc[c] \notin {"callPanic", "cbPanic", "closePanic"}
  /\ ~crashed
  /\ (last.op \in {"sync", "cb"} /\ last.how \in {"fault", "closed"}) => last.err # ErrNil

\* ---------------------------------------------------------------- C6
\* C6: a fault raised by a shape-0 operation does not leave Exec: the RetInfo
\* made for it carries the error, the owner goroutine goes on (the process
\* ends only by a panic in a Client's goroutine), and the synchronous caller
\* reads that RetInfo, its own, and returns a non-nil error.
C6_FaultContained ==
  /\ \A ri \in InFlight : ri.how = "fault" => ri.err = ErrFault /\ ri.ret = NilV
  /\ (last.op = "sync" /\ last.n = 0 /\ last.how = "fault") =>
       last.err # ErrNil /\ last.from = last.own.key
  /\ (last.op = "sync" /\ last.n = 0 /\ last.from # NoKey /\ last.err = ErrNil) =>
       last.how = "exec"
  /\ crashed => \E c \in Clients : cpc[c] \in {"callPanic", "cbPanic", "closePanic"}
  /\ spc \in {"idle", "exec", "retWait", "goWait", "goWaitExec",
              "closing", "closeRetWait", "closed"}

\* Call0 has just returned the error of its operation's fault, and the owner
\* goroutine has since received another envelope and is executing it.
C6_Witness ==
  /\ last.op = "sync" /\ last.n = 0 /\ last.how = "fault" /\ last.err = ErrFault
  /\ spc = "exec" /\ cur.key # last.own.key

\* ---------------------------------------------------------------- C7
\* C7: once ChanCall is closed no envelope enters it.  A synchronous call
\* made then, or suspended in its send when Close came, returns an error; an
\* AsynCall runs its callback inline with the error and leaves
\* pendingAsynCall as it was; Go returns, the error swallowed.
C7_PushAfterCloseFails ==
  /\ [](closed => /\ sendq = <<>>
                  /\ \A i \in 1..Len(chanCall) : chanCall[i].key \in atClose)
  /\ [][closed =>
          /\ Len(chanCall') <= Len(chanCall)
          /\ \A c \in Clients :
               /\ cpc[c] = "idle" => cpc'[c] \notin {"pushWait", "readWait"}
               /\ (cpc[c] = "pushWait" /\ cpc'[c] # "pushWait") =>
                    /\ cpc'[c] = "idle"
                    /\ last'.c = c /\ last'.err = ErrSendClosed
          /\ (last'.op = "sync" /\ last'.from = NoKey) =>
               last'.err \in {ErrSendClosed, ErrNotReg, ErrMismatch}
          /\ (last'.op = "cb" /\ last'.inline) =>
               /\ last'.err \in {ErrSendClosed, ErrNotReg, ErrMismatch}
               /\ last'.ret = NilV
               /\ pendingAsynCall' = pendingAsynCall
               /\ chanCall' = chanCall
          /\ last'.op = "go" =>
               /\ last'.err \in {ErrSendClosed, ErrNotReg}
               /\ chanCall' = chanCall /\ spc' = spc]_vars

\* After Close, a synchronous caller that was suspended in its send when
\* Close came has returned the error; its envelope never entered ChanCall.
C7_Witness ==
  /\ closed
  /\ last.op = "sync" /\ last.err = ErrSendClosed
  /\ last.own.key[2] = ncalls[last.c]
  /\ hist[last.own.key].enq = 0

\* ---------------------------------------------------------------- C8
\* C8: AsynCall never suspends, whatever the state of ChanCall; on a full
\* ChanCall it runs the callback inline with "chanrpc channel full" and a nil
\* result, no envelope enters ChanCall and pendingAsynCall is not incremented.
C8_AsynCallNeverBlocks ==
  /\ [](\A c \in Clients : cpc[c] = "pushWait" => pend[c].chanRet = "sync")
  /\ [][ /\ (last'.op = "cb" /\ last'.inline /\ last'.err = ErrFull) =>
            /\ ~closed /\ Len(chanCall) = QueueCap
            /\ last'.ret = NilV
            /\ UNCHANGED <<chanCall, sendq, pendingAsynCall, hist, cpc>>
         /\ (~closed /\ Len(chanCall) = QueueCap) =>
            /\ \A c \in Clients : pendingAsynCall'[c] <= pendingAsynCall[c]
            /\ \A i \in 1..Len(chanCall') :
                 chanCall'[i].chanRet = "asyn" =>
                   \E j \in 1..Len(chanCall) : chanCall[j] = chanCall'[i]
            /\ (last'.op = "cb" /\ last'.inline) =>
                 last'.err \in {ErrFull, ErrNotReg, ErrMismatch}]_vars

\* AsynCall has just run its callback inline on the full ChanCall.
C8_Witness ==
  /\ last.op = "cb" /\ last.inline /\ last.err = ErrFull
  /\ ~closed /\ Len(chanCall) = QueueCap
  /\ pendingAsynCall[last.c] = 0 /\ cpc[last.c] = "idle"

\* ---------------------------------------------------------------- C9
\* C9: Call0/Call1/CallN never return "chanrpc channel full": on a full
\* ChanCall the caller is suspended in its send.  The errors they return are
\* those of an unknown id, of a shape mismatch, of the closed Server, of a
\* fault in the operation.
C9_SyncCallWaits ==
  /\ last.op = "sync" =>
       last.err \in {ErrNil, ErrNotReg, ErrMismatch, ErrSendClosed, ErrSrvClosed, ErrFault}
  /\ \A c \in Clients :
       cpc[c] = "pushWait" =>
         /\ pend[c].chanRet = "sync"
         /\ closed \/ (/\ Len(chanCall) = QueueCap
                        /\ \E i \in 1..Len(sendq) : sendq[i] = pend[c])
  /\ \A i \in 1..Len(sendq) : cpc[sendq[i].c] = "pushWait"

\* A synchronous caller is suspended in its send on the full, open ChanCall.
C9_Witness ==
  \E c \in Clients :
    /\ cpc[c] = "pushWait" /\ ~closed
    /\ Len(chanCall) = QueueCap

\* ---------------------------------------------------------------- C10
\* C10: Call1 on a Server that is not closed, for an operation that raises
\* no fault, returns the operation's result for the arguments it passed and a
\* nil error; the RetInfo it reads is the one made for its own envelope.
C10_Call1ReturnsOwnResult ==
  (last.op = "sync" /\ last.n = 1 /\ last.from # NoKey) =>
    /\ last.from = last.own.key
    /\ last.how = "exec" =>
         last.ret = ValV(Op1(last.own.args)) /\ last.err = ErrNil
    /\ last.how = "exec" <=> last.from \notin atClose /\ last.err # ErrFault
    /\ last.own.args = ArgsOf(last.c, last.own.key[2])

\* Call1 has returned its operation's result while the other Client's call
\* was in progress.
C10_Witness ==
  /\ last.op = "sync" /\ last.n = 1 /\ last.how = "exec" /\ last.err = ErrNil
  /\ last.ret = ValV(Op1(ArgsOf(last.c, last.own.key[2])))
  /\ \E c \in Clients : c # last.c /\ cpc[c] = "readWait"

\* ---------------------------------------------------------------- C11
\* The envelopes on their way to the owner goroutine or held by it.
Envelopes ==
  {chanCall[i] : i \in 1..Len(chanCall)} \cup {sendq[i] : i \in 1..Len(sendq)}
  \cup (IF cur = NoEnv THEN {} ELSE {cur})

\* C11: a call whose id is not registered, or whose shape is not the
\* registered one, fails before any send: ChanCall (and its blocked senders),
\* both return channels and pendingAsynCall are as they were; Call0/1/N return
\* the error, AsynCall runs its callback inline, once, with nil and the error.
\* No envelope with such an id or shape is ever made.
C11_ResolutionFailsBeforeQueueing ==
  /\ [](\A ci \in Envelopes :
         /\ functions[ci.f] # NoFunc
         /\ ci.chanRet = "asyn" => functions[ci.f] = ci.cb)
  /\ [][(last'.op \in {"sync", "cb"} /\ last'.err \in {ErrNotReg, ErrMismatch}) =>
          /\ UNCHANGED <<chanCall, sendq, chanSyncRet, ChanAsynRet, pendingAsynCall,
                         hist, cpc, spc, cur>>
          /\ last'.ret = NilV
          /\ last'.from = NoKey
          /\ last'.op = "cb" => last'.inline
          /\ cpc[last'.c] = "idle"]_vars

\* AsynCall has run its callback inline with the mismatch error, with an
\* earlier asynchronous call of the Client pending and ChanCall not empty.
C11_Witness ==
  /\ last.op = "cb" /\ last.inline /\ last.err = ErrMismatch
  /\ pendingAsynCall[last.c] > 0
  /\ chanCall # <<>>

\* ---------------------------------------------------------------- C12
\* C12: pendingAsynCall of a Client changes only in that Client's steps: by
\* +1 exactly in the AsynCall step that puts its envelope into ChanCall, by
\* -1 exactly in the step in which Cb runs a callback.  Exec, the send of a
\* RetInfo and Server.Close leave it as it is.
C12_CounterOnlyByClient ==
  [][/\ \A c \in Clients :
          /\ pendingAsynCall'[c] # pendingAsynCall[c] =>
               \/ /\ pendingAsynCall'[c] = pendingAsynCall[c] + 1
                  /\ cpc[c] = "idle" /\ cpc'[c] = "idle"
                  /\ ncalls'[c] = ncalls[c] + 1
                  /\ chanCall' = Append(chanCall, chanCall'[Len(chanCall')])
                  /\ chanCall'[Len(chanCall')].key = <<c, ncalls'[c]>>
                  /\ chanCall'[Len(chanCall')].chanRet = "asyn"
                  /\ UNCHANGED <<spc, cur, closed>>
               \/ /\ pendingAsynCall'[c] = pendingAsynCall[c] - 1
                  /\ cpc[c] \in {"idle", "closing"}
                  /\ last'.op = "cb" /\ ~last'.inline /\ last'.c = c
          /\ (last'.op = "cb" /\ ~last'.inline /\ last'.c = c) =>
               pendingAsynCall'[c] = pendingAsynCall[c] - 1
          /\ (last'.op = "cb" /\ last'.inline /\ last'.c = c) =>
               pendingAsynCall'[c] = pendingAsynCall[c]
          /\ (/\ Len(chanCall') = Len(chanCall) + 1
              /\ chanCall'[Len(chanCall')].c = c
              /\ chanCall'[Len(chanCall')].chanRet = "asyn") =>
               pendingAsynCall'[c] = pendingAsynCall[c] + 1
     /\ (\/ spc = "exec" /\ spc' \in {"idle", "retWait"}
         \/ closed' # closed
         \/ spc = "closing" /\ (chanCall' # chanCall \/ spc' # spc)
         \/ spc = "idle" /\ spc' = "exec") =>
          UNCHANGED pendingAsynCall]_vars

\* Cb has just run a callback with another asynchronous call of the Client
\* still pending, the Server being closed.
C12_Witness ==
  /\ last.op = "cb" /\ ~last.inline
  /\ pendingAsynCall[last.c] = 1
  /\ closed

\* ---------------------------------------------------------------- C13
\* The synchronous calls of c outstanding: its envelopes with chanRet =
\* chanSyncRet on their way to or held by the owner goroutine, and the
\* RetInfos in chanSyncRet.
SyncOutstanding(c) ==
  Cardinality({i \in 1..Len(chanCall) :
                 chanCall[i].c = c /\ chanCall[i].chanRet = "sync"})
  + Cardinality({i \in 1..Len(sendq) : sendq[i].c = c})
  + (IF cur.c = c /\ cur.chanRet = "sync" THEN 1 ELSE 0)
  + Len(chanSyncRet[c])

\* C13: chanSyncRet of a Client never holds more than one RetInfo and the
\* Client never has more than one synchronous call outstanding; with the
\* Client not inside a synchronous call, also after one that returned an
\* error, none is outstanding and chanSyncRet is empty; the owner goroutine is
\* never suspended sending on a chanSyncRet.
C13_SyncChannelAtMostOne ==
  /\ \A c \in Clients :
       /\ Len(chanSyncRet[c]) <= 1
       /\ SyncOutstanding(c) <= 1
       /\ cpc[c] \notin {"readWait", "pushWait"} => SyncOutstanding(c) = 0
       /\ cpc[c] = "readWait" => SyncOutstanding(c) = 1
  /\ spc \in {"retWait", "closeRetWait"} => cur.chanRet = "asyn"

\* A Client is back from a synchronous call that returned the error of its
\* RetInfo, its chanSyncRet empty, while the other Client's RetInfo sits in
\* its chanSyncRet.
C13_Witness ==
  /\ last.op = "sync" /\ last.err # ErrNil /\ last.from # NoKey
  /\ cpc[last.c] = "idle" /\ chanSyncRet[last.c] = <<>>
  /\ \E c \in Clients : c # last.c /\ Len(chanSyncRet[c]) = 1

\* ---------------------------------------------------------------- C14
\* C14: Register(id, f) panics when id has an entry in functions or f is of
\* none of the three types, and then functions is as it was; otherwise it
\* adds the entry id -> f and nothing else.  An entry once made is never
\* replaced or removed.
C14_RegisterContract ==
  /\ [](\A id \in Ids : functions[id] = NoFunc \/ ValidShape(functions[id]))
  /\ [][/\ last'.op = "register" =>
            IF functions[last'.own.f] # NoFunc \/ last'.n \notin {0, 1, 2}
            THEN /\ crashed'
                 /\ functions' = functions
                 /\ last'.err \in {ErrInvalidDef, ErrAlreadyReg}
            ELSE /\ ~crashed'
                 /\ functions' = [functions EXCEPT ![last'.own.f] = last'.n]
                 /\ last'.err = ErrNil
         /\ \A id \in Ids : functions[id] # NoFunc => functions'[id] = functions[id]]_vars

\* Register has panicked on an id that has an entry, for a function of a type
\* other than the registered one; the entry is as it was.
C14_Witness ==
  /\ crashed
  /\ last.op = "register" /\ last.err = ErrAlreadyReg
  /\ functions[last.own.f] # last.n
  /\ \E id \in Ids : id # last.own.f /\ functions[id] # NoFunc

\* ---------------------------------------------------------------- C15
\* Exec of an operation whose body returns.
ExecReturns ==
  /\ ~crashed
  /\ spc = "exec"
  /\ ret(cur, ExecRetInfo(cur, FALSE), "idle", "retWait",
         Produced(Executed(hist, cur), cur))
  /\ last' = NoEvent
  /\ UNCHANGED <<functions, chanCall, sendq, closed, ngo, cpc, pend,
                 pendingAsynCall, ncalls, atClose, crashed>>

\* The Server with its owner loop running (no Close, no Go), operations that
\* return, and Clients that call, pump callbacks and close as they choose.
NextLive ==
  \/ OwnerRecv
  \/ ExecReturns
  \/ \E c \in Clients, r \in Requests : Call(c, r[1], r[2])
  \/ \E c \in Clients : CallRead(c)
  \/ \E c \in Clients, r \in Requests : AsynCall(c, r[1], r[2])
  \/ \E c \in Clients : Cb(c)
  \/ \E c \in Clients : ClientClose(c)
  \/ \E c \in Clients : ClientCloseCb(c)
  \/ \E c \in Clients : ClientCloseEnd(c)

\* The owner loop keeps receiving and calling Exec; a goroutine suspended in a
\* receive (Call<n>'s read of chanSyncRet, Close's read of ChanAsynRet) goes on
\* once a value is there.  Whether and when a Client calls, pumps Cb or
\* closes is up to the application.
SpecLive ==
  /\ Init /\ [][NextLive]_vars
  /\ WF_vars(OwnerRecv)
  /\ WF_vars(ExecReturns)
  /\ \A c \in Clients : WF_vars(CallRead(c)) /\ WF_vars(ClientCloseCb(c))

\* C15: with the owner loop running and operations that return, every
\* synchronous call returns and every Exec returns to the owner loop: the
\* owner goroutine suspended in s.ret's send goes on, whatever the Clients
\* have left undrained in ChanAsynRet.
C15_DispatcherNeverStuck ==
  /\ \A c \in Clients : (cpc[c] \in {"pushWait", "readWait"}) ~> (cpc[c] = "idle")
  /\ (spc \in {"exec", "retWait"}) ~> (spc = "idle")

\* ---------------------------------------------------------------- C16
\* The program with everything that is bound to go on going on: the owner
\* goroutine in its loop and in Close's loop, and every goroutine suspended
\* in a receive or woken from a send by close.
SpecFair ==
  /\ Spec
  /\ WF_vars(OwnerRecv) /\ WF_vars(Exec)
  /\ WF_vars(ServerCloseDrain) /\ WF_vars(ServerCloseEnd)
  /\ \A c \in Clients :
       WF_vars(CallRead(c)) /\ WF_vars(PushPanic(c)) /\ WF_vars(ClientCloseCb(c))

\* C16: Go always returns to its caller, without an error or a panic getting
\* out of it, whatever the state of ChanCall and whether or not id is
\* registered; called by the owner goroutine inside an operation with ChanCall
\* full, it returns and the owner loop goes on.
C16_GoAlwaysReturns ==
  /\ [](last.op = "go" => ~crashed)
  /\ (spc = "goWait") ~> (spc = "idle")
  /\ (spc = "goWaitExec") ~> (spc = "exec")

\* ---------------------------------------------------------------- C17
\* The asynchronous calls of c that entered ChanCall and whose RetInfo Cb has
\* not taken: envelopes in ChanCall, the one the owner goroutine holds, the
\* RetInfos in ChanAsynRet.
AsynPending(c) ==
  Cardinality({i \in 1..Len(chanCall) :
                 chanCall[i].c = c /\ chanCall[i].chanRet = "asyn"})
  + (IF cur.c = c /\ cur.chanRet = "asyn" THEN 1 ELSE 0)
  + Len(ChanAsynRet[c])

\* C17: with a Client not inside AsynCall or Cb, pendingAsynCall is the
\* number of its asynchronous calls that entered ChanCall and whose callback
\* has not run; pendingAsynCall is never negative.
C17_CounterIsInFlight ==
  \A c \in Clients :
    /\ pendingAsynCall[c] >= 0
    /\ cpc[c] \in {"idle", "pushWait", "readWait", "closing", "closed"} =>
         pendingAsynCall[c] = AsynPending(c)

\* A Client between operations with three asynchronous calls pending: one
\* in ChanCall, one whose RetInfo the owner goroutine is suspended sending,
\* one in ChanAsynRet.
C17_Witness ==
  \E c \in Clients :
    /\ cpc[c] = "idle"
    /\ pendingAsynCall[c] = 3
    /\ Len(ChanAsynRet[c]) = 1
    /\ spc = "retWait" /\ cur.c = c
    /\ Len(chanCall) = 1

\* ---------------------------------------------------------------- C18
\* C18: the callback of an AsynCall runs at most once, in a step of the
\* calling Client: inline in AsynCall when c.f or c.call failed, the envelope
\* then never having entered ChanCall, or in Cb for the RetInfo of the
\* envelope that did; never both, and never in a step of Exec, ret or
\* Server.Close.
C18_CallbackAtMostOnce ==
  /\ [](/\ \A k \in AllKeys :
            /\ hist[k].cbs <= 1
            /\ hist[k].cbs = 1 =>
                 k[1] \in Clients /\ hist[k].enq = 1 /\ hist[k].delivered = 1
        /\ \A ri \in InFlight : hist[ri.env.key].cbs = 0
        /\ \A ci \in Envelopes : hist[ci.key].cbs = 0
        /\ (last.op = "cb" /\ last.inline) =>
             /\ last.c = last.own.c /\ last.from = NoKey
             /\ hist[last.own.key].enq = 0 /\ hist[last.own.key].cbs = 0
        /\ (last.op = "cb" /\ ~last.inline) =>
             /\ last.c = last.own.c /\ last.from = last.own.key
             /\ last.n = last.own.cb
             /\ hist[last.from].cbs = 1)
  /\ [][ /\ (\E k \in AllKeys : hist'[k].cbs # hist[k].cbs) =>
             (/\ last'.op = "cb" /\ ~last'.inline
              /\ \A k \in AllKeys :
                   (hist'[k].cbs # hist[k].cbs) => (k = last'.from))
         /\ (last'.op = "cb") =>
             (/\ cpc[last'.c] \in {"idle", "closing"}
              /\ closed' = closed
              /\ chanCall' = chanCall
              /\ ~(spc = "exec" /\ spc' # "exec")
              /\ ~(spc = "closing" /\ spc' # "closing")
              /\ (~last'.inline) =>
                   (hist'[last'.from].cbs = hist[last'.from].cbs + 1)) ]_vars

\* Cb has run the one callback of a call that Server.Close answered, while
\* the other Client has not yet taken its RetInfo.
C18_Witness ==
  /\ last.op = "cb" /\ ~last.inline /\ last.how = "closed"
  /\ hist[last.from].cbs = 1
  /\ pendingAsynCall[last.c] = 0
  /\ \E c \in Clients : c # last.c /\ Len(ChanAsynRet[c]) = 1
====
